---------------------------- MODULE Spec2Model ----------------------------
(***************************************************************************)
(* rollup-plugin-body-iife (src/index.ts).                                 *)
(*                                                                         *)
(* A text is a sequence of one-character strings; a line is a text with no *)
(* newline in it.  The plugin's transform splits the text on newlines,     *)
(* finds where the body starts, rejects an import statement in the body    *)
(* and wraps the body in an immediately-invoked function.  String.split,   *)
(* Array.join, Array.slice, Array.findIndex and String.startsWith are      *)
(* modelled character by character and index by index, as JavaScript       *)
(* computes them.                                                          *)
(***************************************************************************)
EXTENDS Integers, Sequences, FiniteSets

VARIABLES
    code,        \* the file text handed to transform (a sequence of characters)
    typedLines,  \* the lines the text was written from, in order
    id,          \* the file identifier transform was called with ("" before)
    pc,          \* "edit": text being written; "done": transform has run;
                 \* "redone": transform has run on its own output
    ret,         \* outcome of transform(code, id), with splitSource's locals
    ret2         \* outcome of transform(ret.value, id)

vars == <<code, typedLines, id, pc, ret, ret2>>

\* Largest number of lines of an input text.
MaxLines == 4

-----------------------------------------------------------------------------
(* Characters and the texts the plugin compares against *)

NL == "\n"

\* /^\s/ : the white-space characters that occur in the modelled texts
WhiteSpace == {" ", "\t", "\r"}

ImportPrefix == <<"i", "m", "p", "o", "r", "t", " ">>
LineComment == <<"/", "/">>
BlockComment == <<"/", "*">>
CloseBrace == <<"}">>

IifeOpen == <<"(", "f", "u", "n", "c", "t", "i", "o", "n", "(", ")", " ", "{">>
IifeClose == <<"}", ")", "(", ")", ";">>

\* The lines input texts are written from:
\*   "", "import x", "import(", "//c", "/*", "}", " a", "\t", "g"
LineSet ==
    { <<>>,
      ImportPrefix \o <<"x">>,
      <<"i", "m", "p", "o", "r", "t", "(">>,
      <<"/", "/", "c">>,
      <<"/", "*">>,
      <<"}">>,
      <<" ", "a">>,
      <<"\t">>,
      <<"g">> }

\* The file identifiers, and those the configured include pattern matches
\* (README: include: 'triggers/**/script.js').
Ids == {"triggers/geo/script.js", "lib/util.js"}
Included == {"triggers/geo/script.js"}

filter(fileId) == fileId \in Included

-----------------------------------------------------------------------------
(* JavaScript library functions *)

startsWith(line, prefix) ==
    /\ Len(line) >= Len(prefix)
    /\ SubSeq(line, 1, Len(prefix)) = prefix

RECURSIVE splitFrom(_, _, _)
splitFrom(text, i, cur) ==
    IF i > Len(text) THEN <<cur>>
    ELSE IF text[i] = NL THEN <<cur>> \o splitFrom(text, i + 1, <<>>)
    ELSE splitFrom(text, i + 1, Append(cur, text[i]))

\* text.split("\n")
split(text) == splitFrom(text, 1, <<>>)

RECURSIVE joinTrailing(_, _)
joinTrailing(arr, sep) ==
    IF arr = <<>> THEN <<>>
    ELSE Head(arr) \o <<sep>> \o joinTrailing(Tail(arr), sep)

\* arr.join(sep)
RECURSIVE join(_, _)
join(arr, sep) ==
    IF arr = <<>> THEN <<>>
    ELSE IF Len(arr) = 1 THEN arr[1]
    ELSE Head(arr) \o <<sep>> \o join(Tail(arr), sep)

\* How Array.prototype.slice turns a relative index into an absolute one.
relativeIndex(k, n) ==
    IF k < 0 THEN (IF n + k < 0 THEN 0 ELSE n + k)
    ELSE (IF k > n THEN n ELSE k)

sliceNegativeEndIsLength(arr, start, end) ==
    SubSeq(arr, relativeIndex(start, Len(arr)) + 1,
           IF end < 0 THEN Len(arr) ELSE relativeIndex(end, Len(arr)))

\* arr.slice(start, end), 0-based, end exclusive
slice(arr, start, end) ==
    SubSeq(arr, relativeIndex(start, Len(arr)) + 1, relativeIndex(end, Len(arr)))

\* arr.slice(start)
sliceFrom(arr, start) == slice(arr, start, Len(arr))

\* arr.findIndex(p), given flags[i] = p(arr[i]): 0-based, -1 when none
findIndex(flags) ==
    IF \E i \in 1..Len(flags) : flags[i]
    THEN (CHOOSE i \in 1..Len(flags) :
              flags[i] /\ \A j \in 1..(i - 1) : ~flags[j]) - 1
    ELSE -1

\* arr.some(p), given flags[i] = p(arr[i])
some(flags) == \E i \in 1..Len(flags) : flags[i]

-----------------------------------------------------------------------------
(* src/index.ts *)

isImportStatementStart(line) == startsWith(line, ImportPrefix)

couldBeImportBlockLineNoBrace(line) ==
    \/ line = <<>>
    \/ startsWith(line, LineComment)
    \/ startsWith(line, BlockComment)
    \/ isImportStatementStart(line)
    \/ (Len(line) > 0 /\ line[1] \in WhiteSpace)

couldBeImportBlockLine(line) ==
    \/ line = <<>>
    \/ startsWith(line, LineComment)
    \/ startsWith(line, BlockComment)
    \/ isImportStatementStart(line)
    \/ startsWith(line, CloseBrace)
    \/ (Len(line) > 0 /\ line[1] \in WhiteSpace)

\* The outcome of a call that did not run splitSource.
NoSplit ==
    [ran |-> FALSE, threw |-> FALSE, lineNumber |-> 0, bodyStart |-> 0,
     importLines |-> <<>>, bodyLines |-> <<>>, imports |-> <<>>, body |-> <<>>]

splitSourceUnguarded(text) ==
    LET lines == split(text)
        bodyStart == findIndex([i \in 1..Len(lines) |->
                                    ~couldBeImportBlockLine(lines[i])])
        body == sliceFrom(lines, bodyStart)
    IN  [ran |-> TRUE, threw |-> FALSE, lineNumber |-> 0,
         bodyStart |-> bodyStart,
         importLines |-> slice(lines, 0, bodyStart),
         bodyLines |-> body,
         imports |-> join(slice(lines, 0, bodyStart), NL),
         body |-> join(body, NL)]

\* splitSource: either throws ImportInBodyError(lineNumber) or returns
\* [imports, body]; bodyStart, importLines and bodyLines are its locals.
splitSource(text) ==
    LET lines == split(text)
        bodyStart == findIndex([i \in 1..Len(lines) |->
                                    ~couldBeImportBlockLine(lines[i])])
        body == sliceFrom(lines, bodyStart)
        isImport == [i \in 1..Len(body) |-> isImportStatementStart(body[i])]
    IN  IF some(isImport)
        THEN [ran |-> TRUE, threw |-> TRUE,
              lineNumber |-> bodyStart + findIndex(isImport),
              bodyStart |-> bodyStart,
              importLines |-> <<>>, bodyLines |-> body,
              imports |-> <<>>, body |-> <<>>]
        ELSE [ran |-> TRUE, threw |-> FALSE, lineNumber |-> 0,
              bodyStart |-> bodyStart,
              importLines |-> slice(lines, 0, bodyStart),
              bodyLines |-> body,
              imports |-> join(slice(lines, 0, bodyStart), NL),
              body |-> join(body, NL)]

wrapInIifeNoFinalNewline(text) ==
    IifeOpen \o <<NL>> \o text \o <<NL>> \o IifeClose

wrapInIife(text) ==
    IifeOpen \o <<NL>> \o text \o <<NL>> \o IifeClose \o <<NL>>

\* A transform call yields [kind, value, s]: kind is "undefined" (the bare
\* return), "throw" (ImportInBodyError propagated out of splitSource) or
\* "string" (value is the returned text); s holds what splitSource computed.

transformUnfiltered(text, fileId) ==
    LET s == splitSource(text)
    IN  IF s.threw THEN [kind |-> "throw", value |-> <<>>, s |-> s]
        ELSE [kind |-> "string",
              value |-> join(<<s.imports, wrapInIife(s.body)>>, NL), s |-> s]

transformOnce(text, fileId) ==
    IF ~filter(fileId) THEN [kind |-> "undefined", value |-> <<>>, s |-> NoSplit]
    ELSE LET s == splitSource(text)
         IN  IF s.threw THEN [kind |-> "throw", value |-> <<>>, s |-> s]
             ELSE IF startsWith(s.body, IifeOpen \o <<NL>>)
             THEN [kind |-> "string", value |-> text, s |-> s]
             ELSE [kind |-> "string",
                   value |-> join(<<s.imports, wrapInIife(s.body)>>, NL),
                   s |-> s]

transform(text, fileId) ==
    IF ~filter(fileId) THEN [kind |-> "undefined", value |-> <<>>, s |-> NoSplit]
    ELSE LET s == splitSource(text)
         IN  IF s.threw THEN [kind |-> "throw", value |-> <<>>, s |-> s]
             ELSE [kind |-> "string",
                   value |-> join(<<s.imports, wrapInIife(s.body)>>, NL),
                   s |-> s]

-----------------------------------------------------------------------------
(* The state machine: a file is written line by line, the build pipeline   *)
(* calls transform on it, and may call transform again on the output.      *)

NotCalled == [kind |-> "none", value |-> <<>>, s |-> NoSplit]

Init ==
    /\ typedLines \in {<<l>> : l \in LineSet}
    /\ code = typedLines[1]
    /\ id = ""
    /\ pc = "edit"
    /\ ret = NotCalled
    /\ ret2 = NotCalled

\* One more line is written at the end of the file.
Type(l) ==
    /\ pc = "edit"
    /\ Len(typedLines) < MaxLines
    /\ typedLines' = Append(typedLines, l)
    /\ code' = code \o <<NL>> \o l
    /\ UNCHANGED <<id, pc, ret, ret2>>

\* The pipeline calls transform(code, fileId).
Transform(fileId) ==
    /\ pc = "edit"
    /\ id' = fileId
    /\ ret' = transform(code, fileId)
    /\ pc' = "done"
    /\ UNCHANGED <<code, typedLines, ret2>>

\* The pipeline calls transform on the text the first call returned.
Retransform ==
    /\ pc = "done"
    /\ ret.kind = "string"
    /\ ret2' = transform(ret.value, id)
    /\ pc' = "redone"
    /\ UNCHANGED <<code, typedLines, id, ret>>

Next ==
    \/ \E l \in LineSet : Type(l)
    \/ \E fileId \in Ids : Transform(fileId)
    \/ Retransform

Spec == Init /\ [][Next]_vars

-----------------------------------------------------------------------------
(* What the properties below are stated in: the written lines, read        *)
(* directly from typedLines and not from the plugin's own split.           *)

\* A call that passed the filter: splitSource ran on code.
Split == pc # "edit" /\ ret.s.ran

\* splitSource returned its pair.
Returned == Split /\ ~ret.s.threw

\* splitSource threw ImportInBodyError.
Raised == Split /\ ret.s.threw

NumLines == Len(typedLines)

StartsImport(line) == Len(line) >= 7 /\ SubSeq(line, 1, 7) = ImportPrefix

\* The could-be-import-region predicate as the specification words it.
InImportRegionForm(line) ==
    \/ Len(line) = 0
    \/ line[1] \in {"}", " ", "\t", "\r"}
    \/ (Len(line) >= 2 /\ line[1] = "/" /\ line[2] \in {"/", "*"})
    \/ StartsImport(line)

\* 0-based indexes of the lines that fail the predicate.
Failing == {i \in 0..(NumLines - 1) : ~InImportRegionForm(typedLines[i + 1])}

\* The Region Boundary of the specification: the first failing index, or the
\* line count when no line fails.
RegionBoundary ==
    IF Failing = {} THEN NumLines
    ELSE CHOOSE i \in Failing : \A j \in Failing : i <= j

\* 0-based indexes, at or after the Region Boundary, of lines starting "import ".
BodyImports ==
    {i \in RegionBoundary..(NumLines - 1) : StartsImport(typedLines[i + 1])}

Wrapped(text) == IifeOpen \o <<NL>> \o text \o <<NL>> \o IifeClose \o <<NL>>

-----------------------------------------------------------------------------
C2_RaisesIffImportInBody ==
    Split => (ret.s.threw <=> BodyImports # {})

\* C3: the boundary the splitter computes lies in 0..line count; when no line
\* fails the predicate it is the line count, the import region is every line
\* and the body region is empty.
C3_BoundaryInRange ==
    Split =>
        /\ ret.s.bodyStart \in 0..NumLines
        /\ (Failing = {}) =>
              /\ ret.s.bodyStart = NumLines
              /\ ret.s.bodyLines = <<>>
              /\ Returned => ret.s.importLines = typedLines

\* C4 as stated: import region text, newline, body region text is the
\* original text, for every text the splitter returns on.
C4_LosslessText ==
    Returned => ret.s.imports \o <<NL>> \o ret.s.body = code

\* C4 amended: that holds when the import region has at least one line; when
\* it has none the three pieces give a newline followed by the original text.
C4_LosslessTextAmended ==
    Returned =>
        IF ret.s.importLines # <<>>
        THEN ret.s.imports \o <<NL>> \o ret.s.body = code
        ELSE /\ ret.s.imports = <<>>
             /\ ret.s.body = code
             /\ ret.s.imports \o <<NL>> \o ret.s.body = <<NL>> \o code

C4_Witness ==
    /\ Returned
    /\ ret.s.bodyStart = 0
    /\ NumLines >= 2
    /\ ret.s.importLines = <<>>

\* C5: the lineNumber of a raised ImportInBodyError is the 0-based index of
\* the first line at or after the region boundary that starts with "import ":
\* it is in 0..(line count - 1) and the line there starts with "import ".
C5_LineNumberIsIndex ==
    Raised =>
        /\ ret.s.lineNumber \in 0..(NumLines - 1)
        /\ StartsImport(typedLines[ret.s.lineNumber + 1])
        /\ ret.s.lineNumber \in BodyImports
        /\ \A i \in BodyImports : ret.s.lineNumber <= i

\* C6: for a file id the filter rejects, transform returns undefined without
\* splitting and never raises; undefined is returned for no other call.
C6_IneligibleUnchanged ==
    (pc # "edit") =>
        /\ ~filter(id) => (ret.kind = "undefined" /\ ~ret.s.ran)
        /\ ret.kind = "undefined" => ~filter(id)

C6_Witness ==
    /\ pc = "done" /\ ~filter(id)
    /\ BodyImports # {}
    /\ ret.kind = "undefined"

\* C7: when some line fails the predicate, the boundary is the least index of
\* a failing line: every earlier line satisfies the predicate and the line at
\* the boundary fails it.
C7_BoundaryIsFirstFailing ==
    (Split /\ Failing # {}) =>
        /\ ret.s.bodyStart \in Failing
        /\ \A j \in 0..(ret.s.bodyStart - 1) : InImportRegionForm(typedLines[j + 1])
        /\ ret.s.bodyStart = RegionBoundary

\* a multi-line import ("import x", " a", "}") followed by a statement
C7_Witness ==
    /\ Returned
    /\ typedLines = <<ImportPrefix \o <<"x">>, <<" ", "a">>, <<"}">>, <<"g">>>>
    /\ ret.s.bodyStart = 3
    /\ ret.s.bodyLines = <<<<"g">>>>

\* C8: the import-region lines followed by the body-region lines are the
\* lines of the original text, whatever the boundary is.
C8_LinesPartition ==
    Returned => ret.s.importLines \o ret.s.bodyLines = typedLines

C8_Witness ==
    /\ Returned
    /\ Failing = {}
    /\ NumLines >= 3
    /\ ret.s.importLines # <<>>

\* In the returned text `outText` of a call on the lines `inLines`: a
\* "(function() {" line exists, no line after the first one starts with
\* "import ", and the "import " lines before it are those of inLines, in order.
ImportsStayOutside(outText, inLines) ==
    LET out == split(outText)
        opens == {k \in 1..Len(out) : out[k] = IifeOpen}
    IN  /\ opens # {}
        /\ LET open == CHOOSE k \in opens : \A m \in opens : k <= m
           IN  /\ \A j \in (open + 1)..Len(out) : ~StartsImport(out[j])
               /\ SelectSeq(SubSeq(out, 1, open - 1), StartsImport)
                    = SelectSeq(inLines, StartsImport)

\* C9: in a returned text no line after the "(function() {" line starts with
\* "import ", and the lines starting with "import " before it are those of the
\* input, in the input's order.
C9_NoImportInsideWrapper ==
    /\ (pc # "edit" /\ ret.kind = "string") => ImportsStayOutside(ret.value, typedLines)
    /\ (pc = "redone" /\ ret2.kind = "string") =>
           ImportsStayOutside(ret2.value, split(ret.value))

C9_Witness ==
    /\ pc = "done" /\ ret.kind = "string"
    /\ \E i \in 1..NumLines : StartsImport(typedLines[i])
    /\ \E i \in 1..NumLines : typedLines[i] = <<"i", "m", "p", "o", "r", "t", "(">>
    /\ ret.s.bodyStart >= 1

\* C10: transform applied to its own output does not raise and wraps again:
\* the import region text is that of the first call, the second body is the
\* whole first wrapper, and the second text differs from the first.
C10_DoubleWrap ==
    (pc = "redone") =>
        /\ ret2.kind = "string"
        /\ ret2.s.imports = ret.s.imports
        /\ ret2.s.body = Wrapped(ret.s.body)
        /\ ret2.value = ret.s.imports \o <<NL>> \o Wrapped(Wrapped(ret.s.body))
        /\ ret.value = ret.s.imports \o <<NL>> \o Wrapped(ret.s.body)
        /\ ret2.value # ret.value

C10_Witness ==
    /\ pc = "redone"
    /\ ret.s.importLines # <<>>
    /\ Len(ret.s.bodyLines) >= 2

=============================================================================
